---- MODULE Spec2Model ----
(***************************************************************************)
(* Model of the Doc class (document access controller and comment tree    *)
(* controller) of CorePlex-Documents.                                      *)
(*                                                                         *)
(* Values keep their JavaScript type where the code compares them with     *)
(* === / !== : an ObjectId (a schema field of type ObjectId, a user's      *)
(* _id) is an object, a user's `id` getter and `_id.toString()` are        *)
(* strings, a missing field is undefined.                                  *)
(***************************************************************************)
EXTENDS Integers, Sequences, FiniteSets, TLC

VARIABLES
  cfg,        \* this.document: the normalized permissions and the comments block
  docs,       \* this.Model: the stored records, by identifier
  nextId,     \* the identifier the next created record gets
  docs0,      \* the records as they were when the last call started
  comments,   \* this.CommentModel: the stored comments, by identifier
  nextCid,    \* the identifier the next created comment gets
  comments0,  \* the comments as they were when the last call started
  last,       \* the last call: operation, arguments, result, and the number of
              \* user lookups and storage writes it made
  pending     \* the call that is between two of its awaited storage calls: its
              \* position, what it has read, and the writes it still has to make

vars == <<cfg, docs, nextId, docs0, comments, nextCid, comments0, last, pending>>

(***************************************************************************)
(* Bounds                                                                  *)
(***************************************************************************)
MaxDocs == 2
MaxComments == 3
MaxPage == 1

(***************************************************************************)
(* Roles, users and JavaScript values                                      *)
(***************************************************************************)
GEST == "GEST"
SELLER == "SELLER"
ADMIN == "ADMIN"
ERole == {GEST, SELLER, ADMIN}

RoleRank(r) == CASE r = GEST -> 0 [] r = SELLER -> 1 [] r = ADMIN -> 2

Unset == "unset"

Undefined == [t |-> "undefined", v |-> ""]
Oid(x) == [t |-> "oid", v |-> x]
Str(x) == [t |-> "str", v |-> x]

\* a !== b : primitives compare by type and value, objects by reference
\* (two ObjectId instances read from two documents are never the same object)
StrictNotEqual(a, b) ==
  ~(a.t = b.t /\ a.t \in {"str", "undefined"} /\ a.v = b.v)

\* the user directory: alice and bob are sellers, carol is an admin; "ghost"
\* is a well-formed identifier of no user, "none" is no identifier at all
Directory == [alice |-> SELLER, bob |-> SELLER, carol |-> ADMIN]
UserIds == {"alice", "carol"}
Ghost == "ghost"
NoId == "none"
ActorArgs == UserIds \cup {Ghost, NoId}

\* `null`: user?.id and user?.role of it are undefined
NullUser == [exists |-> FALSE, _id |-> Undefined, id |-> Undefined, role |-> Unset]

UserFindById(id) ==
  IF id \in DOMAIN Directory
  THEN [exists |-> TRUE, _id |-> Oid(id), id |-> Str(id), role |-> Directory[id]]
  ELSE NullUser

permissionsCheck(required, role) ==
  /\ role \in ERole
  /\ RoleRank(role) >= RoleRank(required)

(***************************************************************************)
(* Results                                                                 *)
(***************************************************************************)
DefaultStatus == "DEFAULT"
NoData == [kind |-> "none"]

singleError(field, msg, status) ==
  [type |-> "ERROR", field |-> field, msg |-> msg, status |-> status, data |-> NoData]

success(data, msg, status) ==
  [type |-> "SUCCESS", field |-> "", msg |-> msg, status |-> status, data |-> data]

NoError == [type |-> "NONE", field |-> "", msg |-> "", status |-> "", data |-> NoData]
NoResult == [type |-> "NONE", field |-> "", msg |-> "", status |-> "", data |-> NoData]

Outcome(res, store, lookups, writes) ==
  [res |-> res, store |-> store, lookups |-> lookups, writes |-> writes]

(***************************************************************************)
(* Permission normalization (constructor)                                  *)
(***************************************************************************)
Coalesce2(a, b) == IF a # Unset THEN a ELSE b
Coalesce3(a, b, c) == Coalesce2(a, Coalesce2(b, c))

\* a raw configuration is a record of the same shape with Unset for the
\* fields left out; edit/delete/getDrafts are UnsetPolicy or [role, public]
UnsetPolicy == [role |-> Unset, public |-> FALSE]

\* variant: getDrafts is left as it was given
Normalize_NoGetDrafts(raw) ==
  [read |-> raw.read,
   write |-> raw.write,
   getAll |-> Coalesce3(raw.getAll, raw.read, GEST),
   getOne |-> Coalesce3(raw.getOne, raw.read, GEST),
   create |-> Coalesce3(raw.create, raw.write, SELLER),
   edit |-> IF raw.edit.role # Unset THEN raw.edit
            ELSE [role |-> Coalesce2(raw.write, SELLER), public |-> TRUE],
   delete |-> IF raw.delete.role # Unset THEN raw.delete
              ELSE [role |-> Coalesce2(raw.write, SELLER), public |-> FALSE],
   getDrafts |-> raw.getDrafts]

\* variant: the read and write shorthands win over the advance fields
Normalize_ShorthandFirst(raw) ==
  [read |-> raw.read,
   write |-> raw.write,
   getAll |-> Coalesce3(raw.read, raw.getAll, GEST),
   getOne |-> Coalesce3(raw.read, raw.getOne, GEST),
   create |-> Coalesce3(raw.write, raw.create, SELLER),
   edit |-> IF raw.write # Unset THEN [role |-> raw.write, public |-> TRUE]
            ELSE IF raw.edit.role # Unset THEN raw.edit
            ELSE [role |-> SELLER, public |-> TRUE],
   delete |-> IF raw.write # Unset THEN [role |-> raw.write, public |-> FALSE]
              ELSE IF raw.delete.role # Unset THEN raw.delete
              ELSE [role |-> SELLER, public |-> FALSE],
   getDrafts |-> IF raw.write # Unset THEN [role |-> raw.write, public |-> TRUE]
                 ELSE IF raw.getDrafts.role # Unset THEN raw.getDrafts
                 ELSE [role |-> SELLER, public |-> TRUE]]

\* document.permissions = {...document.permissions, advance: {...}}
Normalize(raw) ==
  [read |-> raw.read,
   write |-> raw.write,
   getAll |-> Coalesce3(raw.getAll, raw.read, GEST),
   getOne |-> Coalesce3(raw.getOne, raw.read, GEST),
   create |-> Coalesce3(raw.create, raw.write, SELLER),
   edit |-> IF raw.edit.role # Unset THEN raw.edit
            ELSE [role |-> Coalesce2(raw.write, SELLER), public |-> TRUE],
   delete |-> IF raw.delete.role # Unset THEN raw.delete
              ELSE [role |-> Coalesce2(raw.write, SELLER), public |-> FALSE],
   getDrafts |-> IF raw.getDrafts.role # Unset THEN raw.getDrafts
                 ELSE [role |-> Coalesce2(raw.write, SELLER), public |-> TRUE]]

RawDefault ==
  [read |-> Unset, write |-> Unset, getAll |-> Unset, getOne |-> Unset,
   create |-> Unset, edit |-> UnsetPolicy, delete |-> UnsetPolicy,
   getDrafts |-> UnsetPolicy]

(***************************************************************************)
(* Document store                                                          *)
(***************************************************************************)
PUBLISHED == "published"
DRAFT == "draft"

DocIds == 1..MaxDocs

\* identity is the identifier or the slug of at most one record
findDocByIdentity(identity, coll) ==
  IF identity \in DOMAIN coll
  THEN [found |-> TRUE, id |-> identity, authorId |-> coll[identity].authorId]
  ELSE [found |-> FALSE, id |-> 0, authorId |-> Undefined]

\* the schema has an authorId path (an ObjectId) only when create is above
\* guest level; a path that is not in the schema is dropped from a payload
HasAuthorPath == cfg.perm.create # GEST

CastAuthor(a) == IF HasAuthorPath /\ a # Unset THEN Oid(a) ELSE Undefined

ModelCreate(data) ==
  [authorId |-> CastAuthor(data.authorId),
   state |-> IF data.state # Unset THEN data.state ELSE PUBLISHED]

ModelUpdate(rec, data) ==
  [authorId |-> IF HasAuthorPath /\ data.authorId # Unset
                THEN Oid(data.authorId) ELSE rec.authorId,
   state |-> IF data.state # Unset THEN data.state ELSE rec.state]

Remove(coll, id) == [k \in DOMAIN coll \ {id} |-> coll[k]]
Put(coll, id, rec) == [k \in DOMAIN coll \cup {id} |-> IF k = id THEN rec ELSE coll[k]]

EmptyPayload == [authorId |-> Unset, state |-> Unset]

(***************************************************************************)
(* Messages                                                                *)
(***************************************************************************)
MSG_SUCCESS == "Document found successfully"
MSG_SUCCESS_CREATE == "Document created successfully"
MSG_SUCCESS_EDIT == "Document edited successfully"
MSG_SUCCESS_DELETE == "Document deleted successfully"
USER_NOT_FOUND == "user not found"
AUTHOR_NOT_FOUND == "author not found"
DOCUMENT_NOT_FOUND == "Document not found"
NO_PERMISSION == " no permission"
NEW_AUTHOR_IS_NOT_VALID == "new author do not have permission to have document"

(***************************************************************************)
(* Pagination helpers                                                      *)
(***************************************************************************)
ConvertToNaturalNumber(n) == IF n < 1 THEN 1 ELSE n

CeilDiv(a, b) == (a + b - 1) \div b

getPageData(page, limit, total) ==
  [page |-> page, limit |-> limit, totalItems |-> total,
   totalPages |-> CeilDiv(total, limit),
   hasNext |-> page < CeilDiv(total, limit),
   hasPrev |-> page > 1]

\* variant: the page number itself is multiplied
Skip_PageTimesLimit(page, limit) == page * limit

\* const skip = (page - 1) * limit
Skip(page, limit) == (page - 1) * limit

RECURSIVE SortDesc(_)
\* sort "-createdAt": identifiers are handed out in creation order
SortDesc(S) ==
  IF S = {} THEN <<>>
  ELSE LET m == CHOOSE x \in S : \A y \in S : y <= x
       IN <<m>> \o SortDesc(S \ {m})

\* .skip(skip).limit(limit) of a result list
SkipLimit(seq, skip, limit) ==
  SubSeq(seq, skip + 1, IF skip + limit < Len(seq) THEN skip + limit ELSE Len(seq))

(***************************************************************************)
(* Document access controller                                              *)
(***************************************************************************)
\* variant: the missing-identifier test is left out, the lookup of no
\* identifier finds nobody and the role check refuses
GetAllGate_NoIdCheck(userId) ==
  LET perm == cfg.perm
      user == UserFindById(userId)
  IN IF perm.getAll = GEST THEN NoError
     ELSE IF ~permissionsCheck(perm.getAll, user.role)
     THEN singleError("user", NO_PERMISSION, DefaultStatus)
     ELSE NoError

\* getAll: who can get all documents (the gate before the listing)
GetAllGate(userId) ==
  LET perm == cfg.perm
      user == UserFindById(userId)
  IN IF perm.getAll = GEST THEN NoError
     ELSE IF userId = NoId
     THEN singleError("user", USER_NOT_FOUND, DefaultStatus)
     ELSE IF ~permissionsCheck(perm.getAll, user.role)
     THEN singleError("user", NO_PERMISSION, DefaultStatus)
     ELSE NoError

\* getAll(page, limit, {sort, userId})
GetAllOutcome(page, limit, userId) ==
  LET perm == cfg.perm
      gated == perm.getAll # GEST
      gate == GetAllGate(userId)
      user1 == IF gated /\ userId # NoId THEN UserFindById(userId) ELSE NullUser
      l1 == IF gated /\ userId # NoId THEN 1 ELSE 0
  IN
  IF gate.type = "ERROR"
  THEN Outcome(gate, docs, l1, 0)
  ELSE
    LET p == ConvertToNaturalNumber(page)
        l == ConvertToNaturalNumber(limit)
        skip == Skip(p, l)
        again == perm.getDrafts.role # GEST /\ userId # NoId /\ ~user1.exists
        user2 == IF again THEN UserFindById(userId) ELSE user1
        l2 == l1 + (IF again THEN 1 ELSE 0)
        all == \/ perm.getDrafts.role = GEST
               \/ userId # NoId /\ permissionsCheck(perm.getDrafts.role, user2.role)
        match == {k \in DOMAIN docs : all \/ docs[k].state = PUBLISHED}
        doc == SkipLimit(SortDesc(match), skip, l)
        pageData == getPageData(p, l, Cardinality(match))
    IN Outcome(success([kind |-> "list", items |-> doc, skip |-> skip, pageData |-> pageData],
                       "", "200"),
               docs, l2, 0)

\* getOne(identity, userId)
GetOneOutcome(identity, userId) ==
  LET perm == cfg.perm
      gated == perm.getOne # GEST
      user == IF gated /\ userId # NoId THEN UserFindById(userId) ELSE NullUser
      l1 == IF gated /\ userId # NoId THEN 1 ELSE 0
      doc == findDocByIdentity(identity, docs)
  IN
  IF gated /\ userId = NoId
  THEN Outcome(singleError("user", USER_NOT_FOUND, DefaultStatus), docs, 0, 0)
  ELSE IF gated /\ ~permissionsCheck(perm.getOne, user.role)
  THEN Outcome(singleError("user", NO_PERMISSION, DefaultStatus), docs, l1, 0)
  ELSE IF ~doc.found
  THEN Outcome(singleError("document", DOCUMENT_NOT_FOUND, "NOT_FOUND"), docs, l1, 0)
  ELSE Outcome(success([kind |-> "doc", id |-> doc.id], MSG_SUCCESS, DefaultStatus), docs, l1, 0)

\* create(data, authorId): the record persisted is the payload as the schema casts it
CreateRecord(data, authorId) == ModelCreate(data)

CreateOutcome(data, authorId) ==
  LET perm == cfg.perm
      gated == perm.create # GEST
      user == IF gated /\ authorId # NoId THEN UserFindById(authorId) ELSE NullUser
      l1 == IF gated /\ authorId # NoId THEN 1 ELSE 0
  IN
  IF gated /\ authorId = NoId
  THEN Outcome(singleError("user", AUTHOR_NOT_FOUND, DefaultStatus), docs, 0, 0)
  ELSE IF gated /\ ~user.exists
  THEN Outcome(singleError("user", AUTHOR_NOT_FOUND, DefaultStatus), docs, l1, 0)
  ELSE IF gated /\ ~permissionsCheck(perm.create, user.role)
  THEN Outcome(singleError("user", NO_PERMISSION, DefaultStatus), docs, l1, 0)
  ELSE Outcome(success([kind |-> "doc", id |-> nextId], MSG_SUCCESS_CREATE, "SUCCESS_CREATE"),
               Put(docs, nextId, CreateRecord(data, authorId)), l1, 1)


\* the actor is looked up unless the policy is {role: GEST, public: true}
NeedsActor(permissions) == permissions.role # GEST \/ ~permissions.public

\* if (permissions.role !== GEST && !permissionsCheck(permissions.role, user?.role))
RoleDenied(permissions, user) ==
  permissions.role # GEST /\ ~permissionsCheck(permissions.role, user.role)

\* if (!permissions.public && document.authorId !== user?.id)
OwnershipDenied(permissions, document, user) ==
  ~permissions.public /\ StrictNotEqual(document.authorId, user.id)

\* variant: the new author only has to exist
NewAuthorError_ExistenceOnly(data) ==
  IF data.authorId = Unset THEN NoError
  ELSE IF ~UserFindById(data.authorId).exists
  THEN singleError("new_author", USER_NOT_FOUND, "NOT_FOUND")
  ELSE NoError

\* if ('authorId' in data) { newAuthor must exist and satisfy the create permission }
NewAuthorError(data) ==
  IF data.authorId = Unset THEN NoError
  ELSE LET newAuthor == UserFindById(data.authorId)
       IN IF ~newAuthor.exists
          THEN singleError("new_author", USER_NOT_FOUND, "NOT_FOUND")
          ELSE IF ~permissionsCheck(cfg.perm.create, newAuthor.role)
          THEN singleError("new_author", NEW_AUTHOR_IS_NOT_VALID, DefaultStatus)
          ELSE NoError

\* the checks shared by edit and delete, in the order of the code; NoError when
\* all pass
ActorError(permissions, document, userId) ==
  LET user == IF NeedsActor(permissions) THEN UserFindById(userId) ELSE NullUser
  IN IF NeedsActor(permissions) /\ ~user.exists
     THEN singleError("user", USER_NOT_FOUND, DefaultStatus)
     ELSE IF RoleDenied(permissions, user)
     THEN singleError("user", NO_PERMISSION, DefaultStatus)
     ELSE IF OwnershipDenied(permissions, document, user)
     THEN singleError("user", NO_PERMISSION, DefaultStatus)
     ELSE NoError

\* variant: the new author is checked before the actor
EditFound_AuthorFirst(document, data, editorId) ==
  LET permissions == cfg.perm.edit
      l1 == IF NeedsActor(permissions) THEN 1 ELSE 0
      l2 == l1 + (IF data.authorId # Unset THEN 1 ELSE 0)
      actorErr == ActorError(permissions, document, editorId)
      authorErr == NewAuthorError(data)
  IN
  IF authorErr.type = "ERROR"
  THEN Outcome(authorErr, docs, l2, 0)
  ELSE IF actorErr.type = "ERROR"
  THEN Outcome(actorErr, docs, l2, 0)
  ELSE Outcome(success([kind |-> "doc", id |-> document.id], MSG_SUCCESS_EDIT, "SUCCESS_CREATE"),
               [docs EXCEPT ![document.id] = ModelUpdate(@, data)], l2, 1)

\* edit, once the record is resolved: the actor checks, the new author's check,
\* then the update
EditFound(document, data, editorId) ==
  LET permissions == cfg.perm.edit
      l1 == IF NeedsActor(permissions) THEN 1 ELSE 0
      l2 == l1 + (IF data.authorId # Unset THEN 1 ELSE 0)
      actorErr == ActorError(permissions, document, editorId)
      authorErr == NewAuthorError(data)
  IN
  IF actorErr.type = "ERROR"
  THEN Outcome(actorErr, docs, l1, 0)
  ELSE IF authorErr.type = "ERROR"
  THEN Outcome(authorErr, docs, l2, 0)
  ELSE Outcome(success([kind |-> "doc", id |-> document.id], MSG_SUCCESS_EDIT, "SUCCESS_CREATE"),
               [docs EXCEPT ![document.id] = ModelUpdate(@, data)], l2, 1)

\* variant: the editor is looked up before the record is resolved
EditOutcome_LookupFirst(identity, data, editorId) ==
  LET document == findDocByIdentity(identity, docs)
      permissions == cfg.perm.edit
      l1 == IF NeedsActor(permissions) THEN 1 ELSE 0
  IN
  IF NeedsActor(permissions) /\ ~UserFindById(editorId).exists
  THEN Outcome(singleError("user", USER_NOT_FOUND, DefaultStatus), docs, l1, 0)
  ELSE IF ~document.found
  THEN Outcome(singleError("document", DOCUMENT_NOT_FOUND, DefaultStatus), docs, l1, 0)
  ELSE EditFound(document, data, editorId)

\* edit(identity, data, editorId)
EditOutcome(identity, data, editorId) ==
  LET document == findDocByIdentity(identity, docs)
  IN
  IF ~document.found
  THEN Outcome(singleError("document", DOCUMENT_NOT_FOUND, DefaultStatus), docs, 0, 0)
  ELSE EditFound(document, data, editorId)

\* delete(identity, userId): the checks; NoError when the delete goes ahead
DeleteError(identity, userId) ==
  LET permissions == cfg.perm.delete
      document == findDocByIdentity(identity, docs)
  IN IF ~document.found
     THEN singleError("document", DOCUMENT_NOT_FOUND, DefaultStatus)
     ELSE ActorError(permissions, document, userId)

DeleteLookups(identity) ==
  IF findDocByIdentity(identity, docs).found /\ NeedsActor(cfg.perm.delete) THEN 1 ELSE 0

\* this.Model.deleteOne() is called on the model without a filter: it removes
\* the first record of the collection in the store's natural order, which the
\* store does not fix; any stored record can be the one
DeleteOneVictims(identity) == DOMAIN docs

(***************************************************************************)
(* State machine of the document operations                                *)
(***************************************************************************)
CommentsOff ==
  [enabled |-> FALSE, needToVerify |-> FALSE,
   canVerify |-> [role |-> SELLER, public |-> TRUE], canMange |-> SELLER]

\* the raw permission blocks the document kinds are constructed from: all
\* defaults; read and the owner-aware policies set; everything at guest level;
\* the write shorthand raised to admin
RawConfigs ==
  {RawDefault,
   [RawDefault EXCEPT !.read = SELLER,
                      !.edit = [role |-> SELLER, public |-> FALSE],
                      !.delete = [role |-> SELLER, public |-> TRUE]],
   [RawDefault EXCEPT !.create = GEST,
                      !.edit = [role |-> GEST, public |-> TRUE],
                      !.delete = [role |-> GEST, public |-> FALSE]],
   [RawDefault EXCEPT !.write = ADMIN]}

PageArgs == 0..MaxPage
Identities == DocIds
\* the payloads of the document operations set or leave out authorId
CreatePayloads == [authorId : {Unset} \cup UserIds, state : {Unset}]
EditPayloads == [authorId : {Unset} \cup UserIds \cup {Ghost}, state : {Unset}]

\* no call is between two of its awaited storage calls
NoPending ==
  [op |-> "none", pc |-> "idle", id |-> 0, actor |-> NoId,
   data |-> EmptyPayload, children |-> <<>>, lookups |-> 0, writes |-> 0]

NoCall ==
  [op |-> "none", identity |-> 0, actor |-> NoId, data |-> EmptyPayload,
   res |-> NoResult, lookups |-> 0, writes |-> 0]

Call(op, identity, actor, data, out) ==
  [op |-> op, identity |-> identity, actor |-> actor, data |-> data,
   res |-> out.res, lookups |-> out.lookups, writes |-> out.writes]

Init ==
  /\ cfg \in {[perm |-> Normalize(raw), comments |-> CommentsOff] : raw \in RawConfigs}
  /\ docs = <<>>
  /\ nextId = 1
  /\ docs0 = <<>>
  /\ comments = <<>>
  /\ nextCid = 1
  /\ comments0 = <<>>
  /\ last = NoCall
  /\ pending = NoPending

DocStep(op, identity, actor, data, out) ==
  /\ docs' = out.store
  /\ docs0' = docs
  /\ last' = Call(op, identity, actor, data, out)
  /\ UNCHANGED <<cfg, comments, nextCid, comments0, pending>>

GetAll ==
  \E page \in PageArgs, limit \in PageArgs, userId \in ActorArgs :
    /\ DocStep("getAll", 0, userId, EmptyPayload, GetAllOutcome(page, limit, userId))
    /\ UNCHANGED nextId

GetOne ==
  \E identity \in Identities, userId \in ActorArgs :
    /\ DocStep("getOne", identity, userId, EmptyPayload, GetOneOutcome(identity, userId))
    /\ UNCHANGED nextId

Create ==
  \E data \in CreatePayloads, authorId \in ActorArgs :
    /\ nextId <= MaxDocs
    /\ DocStep("create", 0, authorId, data, CreateOutcome(data, authorId))
    /\ nextId' = IF CreateOutcome(data, authorId).res.type = "SUCCESS"
                 THEN nextId + 1 ELSE nextId

Edit ==
  \E identity \in Identities, data \in EditPayloads, editorId \in ActorArgs :
    /\ DocStep("edit", identity, editorId, data, EditOutcome(identity, data, editorId))
    /\ UNCHANGED nextId

Delete ==
  \E identity \in Identities, userId \in ActorArgs :
    LET err == DeleteError(identity, userId)
    IN /\ IF err.type = "ERROR"
          THEN DocStep("delete", identity, userId, EmptyPayload,
                       Outcome(err, docs, DeleteLookups(identity), 0))
          ELSE \E victim \in DeleteOneVictims(identity) :
                 DocStep("delete", identity, userId, EmptyPayload,
                         Outcome(success([kind |-> "doc", id |-> identity],
                                         MSG_SUCCESS_DELETE, "SUCCESS"),
                                 Remove(docs, victim), DeleteLookups(identity), 1))
       /\ UNCHANGED nextId

Next == GetAll \/ GetOne \/ Create \/ Edit \/ Delete

Spec == Init /\ [][Next]_vars

(***************************************************************************)
(* Comment tree controller                                                 *)
(***************************************************************************)
ACCEPTED == "accepted"
REJECTED == "rejected"
WAITING == "waiting"
PARENT_DELETED == "parent_deleted"
ECommentState == {ACCEPTED, REJECTED, WAITING, PARENT_DELETED}

COMMENTS_DISABLED == "comments are disabled"
C_SUCCESS_CREATE == "comment created"
C_SUCCESS_EDIT == "comment edited"
C_SUCCESS_DELETE == "comment deleted"
C_USER_NOT_FOUND == "comment: user not found"
COMMENT_NOT_FOUND == "comment not found"
C_NO_PERMISSION == "comment: no permission"

\* return new Error("comments are disabled"): a raw fault object, not a result
DisabledSignal ==
  [type |-> "DISABLED", field |-> "", msg |-> COMMENTS_DISABLED, status |-> "", data |-> NoData]

CommentsEnabled == cfg.comments.enabled

CommentIds == 1..MaxComments
NoParent == 0

\* the schema default of state
DefaultCommentState == IF cfg.comments.needToVerify THEN WAITING ELSE ACCEPTED

\* the virtual "children": the comments whose parent is this comment
Children(coll, id) == {k \in DOMAIN coll : coll[k].parent = id}

\* newComment(data, userId)
NewCommentOutcome(data, userId) ==
  LET user == UserFindById(userId)
  IN
  IF ~CommentsEnabled THEN Outcome(DisabledSignal, comments, 0, 0)
  ELSE IF ~user.exists
  THEN Outcome(singleError("user", C_USER_NOT_FOUND, "CONFLICT"), comments, 1, 0)
  ELSE Outcome(success([kind |-> "comment", id |-> nextCid], C_SUCCESS_CREATE, "SUCCESS_CREATE"),
               Put(comments, nextCid,
                   [user |-> Oid(user._id.v), parent |-> data.parent,
                    document |-> data.document, state |-> DefaultCommentState]),
               1, 1)

\* variant: a non-verifier's requested state is cleared from the payload
\* instead of being set to WAITING
EditCommentData_ClearState(data, user) ==
  IF ~permissionsCheck(cfg.comments.canVerify.role, user.role)
  THEN [data EXCEPT !.state = Unset]
  ELSE data

\* variant: the payload is passed on as it was given, whoever the editor is
EditCommentData_AsGiven(data, user) == data

\* if the editor does not satisfy canVerify.role the payload's state is overwritten
EditCommentData(data, user) ==
  IF ~permissionsCheck(cfg.comments.canVerify.role, user.role)
  THEN [data EXCEPT !.state = WAITING]
  ELSE data

CommentUpdate(rec, data) ==
  [rec EXCEPT !.state = IF data.state # Unset THEN data.state ELSE @]

\* editComment(commentId, data, editorId)
EditCommentOutcome(commentId, data, editorId) ==
  LET user == UserFindById(editorId)
  IN
  IF ~CommentsEnabled THEN Outcome(DisabledSignal, comments, 0, 0)
  ELSE IF ~user.exists
  THEN Outcome(singleError("user", C_USER_NOT_FOUND, "CONFLICT"), comments, 1, 0)
  ELSE IF commentId \notin DOMAIN comments
  THEN Outcome(singleError("commentId", COMMENT_NOT_FOUND, "NOT_FOUND"), comments, 1, 0)
  ELSE Outcome(success([kind |-> "comment", id |-> commentId], C_SUCCESS_EDIT, "SUCCESS"),
               [comments EXCEPT ![commentId] = CommentUpdate(@, EditCommentData(data, user))],
               1, 1)

\* if (user._id.toString() !== comment.user && !permissionsCheck(canMange, user.role))
\* the body of this if builds an error result and drops it: there is no return
\* in it, so the outcome of deleteComment does not depend on it
DeleteCommentDenied(comment, user) ==
  /\ StrictNotEqual(Str(user._id.v), comment.user)
  /\ ~permissionsCheck(cfg.comments.canMange, user.role)

\* variant: only one child is updated after the parent is deleted
CascadeDelete_FirstChildOnly(coll, commentId) ==
  LET children == Children(coll, commentId)
      rest == Remove(coll, commentId)
      first == {k \in children : \A j \in children : k <= j}
  IN [k \in DOMAIN rest |->
        IF k \in first THEN [rest[k] EXCEPT !.state = PARENT_DELETED] ELSE rest[k]]

\* variant: the update reaches the children's children as well
CascadeDelete_Descendants(coll, commentId) ==
  LET children == Children(coll, commentId)
      rest == Remove(coll, commentId)
      below == children \cup {k \in DOMAIN coll : coll[k].parent \in children}
  IN [k \in DOMAIN rest |->
        IF k \in below THEN [rest[k] EXCEPT !.state = PARENT_DELETED] ELSE rest[k]]

\* comment.deleteOne(), then every child read with the comment is updated
CascadeDelete(coll, commentId) ==
  LET children == Children(coll, commentId)
      rest == Remove(coll, commentId)
  IN [k \in DOMAIN rest |->
        IF k \in children THEN [rest[k] EXCEPT !.state = PARENT_DELETED] ELSE rest[k]]

\* variant: the editor is looked up before the enabled test
DeleteCommentOutcome_LookupFirst(commentId, editorId) ==
  LET user == UserFindById(editorId)
  IN
  IF ~user.exists
  THEN Outcome(singleError("user", C_USER_NOT_FOUND, "CONFLICT"), comments, 1, 0)
  ELSE IF ~CommentsEnabled THEN Outcome(DisabledSignal, comments, 1, 0)
  ELSE IF commentId \notin DOMAIN comments
  THEN Outcome(singleError("commentId", COMMENT_NOT_FOUND, "NOT_FOUND"), comments, 1, 0)
  ELSE Outcome(success([kind |-> "comment", id |-> commentId], C_SUCCESS_DELETE, "SUCCESS"),
               CascadeDelete(comments, commentId),
               1, 1 + Cardinality(Children(comments, commentId)))

\* deleteComment(commentId, editorId)
DeleteCommentOutcome(commentId, editorId) ==
  LET user == UserFindById(editorId)
  IN
  IF ~CommentsEnabled THEN Outcome(DisabledSignal, comments, 0, 0)
  ELSE IF ~user.exists
  THEN Outcome(singleError("user", C_USER_NOT_FOUND, "CONFLICT"), comments, 1, 0)
  ELSE IF commentId \notin DOMAIN comments
  THEN Outcome(singleError("commentId", COMMENT_NOT_FOUND, "NOT_FOUND"), comments, 1, 0)
  ELSE Outcome(success([kind |-> "comment", id |-> commentId], C_SUCCESS_DELETE, "SUCCESS"),
               CascadeDelete(comments, commentId),
               1, 1 + Cardinality(Children(comments, commentId)))

(***************************************************************************)
(* State machine of the comment operations                                 *)
(***************************************************************************)
CommentConfigs ==
  {[enabled |-> TRUE, needToVerify |-> TRUE,
    canVerify |-> [role |-> ADMIN, public |-> TRUE], canMange |-> ADMIN],
   [enabled |-> TRUE, needToVerify |-> FALSE,
    canVerify |-> [role |-> SELLER, public |-> TRUE], canMange |-> SELLER],
   CommentsOff}

Commenters == {"alice", Ghost}
CommentEditors == {"alice", "carol", Ghost}
CommentDeleters == {"alice", "bob", "carol", Ghost}
NewCommentPayloads == [parent : {NoParent} \cup CommentIds, state : {Unset}, document : {1}]
EditCommentPayloads == [parent : {NoParent}, state : {Unset, ACCEPTED}]

\* one document is stored: the one the comments are written on
CInit ==
  /\ cfg \in {[perm |-> Normalize(RawDefault), comments |-> cc] : cc \in CommentConfigs}
  /\ docs = <<ModelCreate(EmptyPayload)>>
  /\ nextId = 2
  /\ docs0 = docs
  /\ comments = <<>>
  /\ nextCid = 1
  /\ comments0 = <<>>
  /\ last = NoCall
  /\ pending = NoPending

CommentStep(op, identity, actor, data, out) ==
  /\ comments' = out.store
  /\ comments0' = comments
  /\ last' = [op |-> op, identity |-> identity, actor |-> actor, data |-> data,
              res |-> out.res, lookups |-> out.lookups, writes |-> out.writes]
  /\ UNCHANGED <<cfg, docs, nextId, docs0, pending>>

NewComment ==
  \E data \in NewCommentPayloads, userId \in Commenters :
    /\ nextCid <= MaxComments
    /\ data.parent < nextCid
    /\ CommentStep("newComment", 0, userId, data, NewCommentOutcome(data, userId))
    /\ nextCid' = IF NewCommentOutcome(data, userId).res.type = "SUCCESS"
                  THEN nextCid + 1 ELSE nextCid

EditComment ==
  \E commentId \in CommentIds, data \in EditCommentPayloads, editorId \in CommentEditors :
    /\ CommentStep("editComment", commentId, editorId, data,
                   EditCommentOutcome(commentId, data, editorId))
    /\ UNCHANGED nextCid

DeleteComment ==
  \E commentId \in CommentIds, editorId \in CommentDeleters :
    /\ CommentStep("deleteComment", commentId, editorId, [parent |-> NoParent, state |-> Unset],
                   DeleteCommentOutcome(commentId, editorId))
    /\ UNCHANGED nextCid

CNext == NewComment \/ EditComment \/ DeleteComment

CSpec == CInit /\ [][CNext]_vars

(***************************************************************************)
(* Properties of the comment operations, stated for CSpec                  *)
(***************************************************************************)
LastActor == UserFindById(last.actor)
Succeeded == last.res.type = "SUCCESS"
Failed == last.res.type = "ERROR"

DeletedComment == last.op = "deleteComment" /\ Succeeded
ChildrenBefore == Children(comments0, last.identity)

\* C1: after a successful deleteComment(C, editor) on a comment whose direct
\* children were all ACCEPTED, C is no longer stored and every comment whose
\* parent was C is stored in state PARENT_DELETED
C1_DeleteCascadesToChildren ==
  (DeletedComment /\ \A k \in ChildrenBefore : comments0[k].state = ACCEPTED)
    => /\ last.identity \notin DOMAIN comments
       /\ \A k \in ChildrenBefore :
            k \in DOMAIN comments /\ comments[k].state = PARENT_DELETED

\* a comment with two ACCEPTED children has been deleted
C1_Witness ==
  /\ DeletedComment
  /\ Cardinality(ChildrenBefore) >= 2
  /\ \A k \in ChildrenBefore : comments0[k].state = ACCEPTED
  /\ last.identity \in DOMAIN comments0

\* the editor of the last call exists, is not the author of the comment the
\* call names and does not satisfy canMange
NeitherAuthorNorManager ==
  /\ CommentsEnabled
  /\ LastActor.exists
  /\ last.identity \in DOMAIN comments0
  /\ comments0[last.identity].user # Oid(last.actor)
  /\ ~permissionsCheck(cfg.comments.canMange, LastActor.role)

\* C20: a successful deleteComment(C) removes C, changes nothing but the state
\* of the comments whose parent was C, and leaves every other comment (the
\* children's own children, the other threads) and every document record as
\* it was
C20_DeleteTouchesChildrenOnly ==
  DeletedComment
    => /\ DOMAIN comments = DOMAIN comments0 \ {last.identity}
       /\ \A k \in ChildrenBefore :
            comments[k] = [comments0[k] EXCEPT !.state = PARENT_DELETED]
       /\ \A k \in DOMAIN comments \ ChildrenBefore : comments[k] = comments0[k]
       /\ docs = docs0

\* a comment with a child that has a child of its own has been deleted: the
\* child is marked, the grandchild is as it was
C20_Witness ==
  /\ DeletedComment
  /\ \E k \in ChildrenBefore :
       /\ comments[k].state = PARENT_DELETED
       /\ \E g \in Children(comments0, k) :
            comments[g] = comments0[g] /\ comments[g].state # PARENT_DELETED
  /\ docs # <<>>

\* C2: deleteComment by an existing editor who is neither the comment's author
\* nor a manager returns a permission-denied error, leaves the comment in the
\* store and changes no child
C2_DeleteNeedsAuthorOrManager ==
  (last.op = "deleteComment" /\ NeitherAuthorNorManager)
    => /\ Failed
       /\ last.res.msg = C_NO_PERMISSION
       /\ comments = comments0

\* C3: editComment by an existing editor who does not satisfy canVerify, on an
\* existing comment, leaves the stored comment in state WAITING whatever the
\* payload asks for
C3_NonVerifierEditIsWaiting ==
  (/\ last.op = "editComment"
   /\ CommentsEnabled
   /\ LastActor.exists
   /\ ~permissionsCheck(cfg.comments.canVerify.role, LastActor.role)
   /\ last.identity \in DOMAIN comments0)
    => /\ last.identity \in DOMAIN comments
       /\ comments[last.identity].state = WAITING

\* a non-verifier asked for ACCEPTED on a comment that was not WAITING
C3_Witness ==
  /\ last.op = "editComment"
  /\ Succeeded
  /\ ~permissionsCheck(cfg.comments.canVerify.role, LastActor.role)
  /\ last.data.state = ACCEPTED
  /\ last.identity \in DOMAIN comments0
  /\ comments0[last.identity].state \in {ACCEPTED, PARENT_DELETED}
  /\ comments[last.identity].state = WAITING

(***************************************************************************)
(* Properties of the document operations, stated for Spec                  *)
(***************************************************************************)
RecordMissing == last.identity \notin DOMAIN docs0

\* the policy the last edit or delete call was checked against
LastPolicy == IF last.op = "edit" THEN cfg.perm.edit ELSE cfg.perm.delete

\* the checks of a write request, each stated on the request itself
ActorMissing == NeedsActor(LastPolicy) /\ ~LastActor.exists
RoleFails ==
  LastPolicy.role # GEST /\ ~permissionsCheck(LastPolicy.role, LastActor.role)
ActorIsAuthor == docs0[last.identity].authorId = Oid(last.actor)
NotOwner == ~LastPolicy.public /\ ~ActorIsAuthor
NewAuthorFails ==
  /\ last.data.authorId # Unset
  /\ \/ ~UserFindById(last.data.authorId).exists
     \/ ~permissionsCheck(cfg.perm.create, UserFindById(last.data.authorId).role)

\* C4: a successful delete(identity, userId) removes exactly the record that
\* identity resolves to; every other record is still stored, unchanged
C4_DeleteRemovesResolvedRecord ==
  (last.op = "delete" /\ Succeeded) => docs = Remove(docs0, last.identity)

\* C5: edit and delete on an identity that resolves to no record return the
\* document-not-found error with no user lookup and no storage write
C5_NotFoundBeforePermission ==
  (last.op \in {"edit", "delete"} /\ RecordMissing)
    => /\ Failed
       /\ last.res.msg = DOCUMENT_NOT_FOUND
       /\ last.lookups = 0
       /\ last.writes = 0
       /\ docs = docs0

\* edit of a missing record by nobody, under a policy that needs an actor, with
\* a new author who does not exist
C5_Witness ==
  /\ last.op = "edit"
  /\ RecordMissing
  /\ docs0 # <<>>
  /\ ActorMissing
  /\ NewAuthorFails
  /\ last.res.msg = DOCUMENT_NOT_FOUND

\* C6: the error of an edit is that of the earliest failing check in the order
\* record existence, actor and role, ownership, new author; the error of a
\* later check is never returned while an earlier check fails
C6_EditErrorOfEarliestCheck ==
  last.op = "edit" =>
    /\ RecordMissing => (Failed /\ last.res.msg = DOCUMENT_NOT_FOUND)
    /\ (~RecordMissing /\ ActorMissing)
         => (Failed /\ last.res.field = "user" /\ last.res.msg = USER_NOT_FOUND)
    /\ (~RecordMissing /\ ~ActorMissing /\ RoleFails)
         => (Failed /\ last.res.field = "user" /\ last.res.msg = NO_PERMISSION)
    /\ (~RecordMissing /\ ~ActorMissing /\ ~RoleFails /\ NotOwner)
         => (Failed /\ last.res.field = "user" /\ last.res.msg = NO_PERMISSION)
    /\ last.res.field = "new_author"
         => (~RecordMissing /\ ~ActorMissing /\ ~RoleFails /\ ~NotOwner /\ NewAuthorFails)

\* an edit whose actor fails the role check and whose new author does not exist
C6_Witness ==
  /\ last.op = "edit"
  /\ ~RecordMissing
  /\ ~ActorMissing
  /\ RoleFails
  /\ NewAuthorFails
  /\ last.res.msg = NO_PERMISSION

\* C7: an edit that reassigns authorId to a user who does not exist or does not
\* satisfy the create permission returns an error and leaves the store as it was
C7_BadNewAuthorLeavesRecord ==
  (last.op = "edit" /\ NewAuthorFails) => (Failed /\ docs = docs0)

\* an edit refused because of the new author's role, on a record of another author
C7_Witness ==
  /\ last.op = "edit"
  /\ ~RecordMissing
  /\ last.res.msg = NEW_AUTHOR_IS_NOT_VALID
  /\ docs0[last.identity].authorId # Oid(last.data.authorId)
  /\ docs[last.identity] = docs0[last.identity]

\* C8: under a policy that is not public, an existing actor whose role
\* satisfies the policy edits (deletes) a record if and only if the actor is
\* its author; a non-author gets the no-permission error and nothing changes
C8_OwnerAndOnlyOwnerSucceeds ==
  (/\ last.op \in {"edit", "delete"}
   /\ ~RecordMissing
   /\ ~LastPolicy.public
   /\ LastActor.exists
   /\ ~RoleFails)
    => IF ActorIsAuthor
       THEN Succeeded \/ (last.op = "edit" /\ NewAuthorFails)
       ELSE Failed /\ last.res.msg = NO_PERMISSION /\ docs = docs0

\* C9: with create above guest level, the record a successful create persists
\* has the user resolved from authorId as its author
C9_CreatedRecordHasResolvedAuthor ==
  (last.op = "create" /\ Succeeded /\ cfg.perm.create # GEST)
    => docs[last.res.data.id].authorId = Oid(last.actor)

ReadCall == last.op \in {"getAll", "getOne"}
UnauthenticatedGetAll ==
  last.op = "getAll" /\ last.actor = NoId /\ cfg.perm.getAll # GEST

\* C10 as stated: the error of getAll without a user identifier on a gated
\* kind is the permission-denied error
C10_UnauthenticatedGetAllDenied ==
  /\ UnauthenticatedGetAll
       => (Failed /\ last.res.msg = NO_PERMISSION /\ last.writes = 0)
  /\ ReadCall => docs = docs0

\* C10 amended: getAll without a user identifier on a gated kind returns the
\* structured user-not-found error and writes nothing; getAll and getOne never
\* change the document store
C10_UnauthenticatedGetAllUserNotFound ==
  /\ UnauthenticatedGetAll
       => /\ Failed
          /\ last.res.field = "user"
          /\ last.res.msg = USER_NOT_FOUND
          /\ last.lookups = 0
  /\ ReadCall => (last.writes = 0 /\ docs = docs0)

\* getAll without a user identifier on a gated kind with records in the store
C10_Witness ==
  /\ UnauthenticatedGetAll
  /\ Failed
  /\ docs # <<>>

(***************************************************************************)
(* Faults of the collaborators: an awaited call into the store or the user *)
(* directory rejects.  Inside a try block the catch hands the fault to     *)
(* handleModelErrors and the handler returns its result; outside one the   *)
(* handler's own promise rejects with the fault.                           *)
(***************************************************************************)
MaxFaultAt == 4

\* the fault leaves the handler as it came: the call does not return a result
Thrown ==
  [type |-> "THROWN", field |-> "", msg |-> "storage fault", status |-> "", data |-> NoData]

\* catch (error) { return handleModelErrors(error) }
handleModelErrors(error) == singleError("model", "internal error", "INTERNAL_SERVER_ERROR")

\* getOne with the n-th awaited call rejecting: User.findById (when the kind
\* is gated and an identifier is given), then findDocByIdentity (when the gate
\* lets the call through); the handler has no try block
GetOneFaultOutcome(identity, userId, n) ==
  LET out == GetOneOutcome(identity, userId)
      resolves == ~(out.res.type = "ERROR" /\ out.res.field = "user")
      calls == out.lookups + (IF resolves THEN 1 ELSE 0)
  IN IF n <= calls
     THEN Outcome(Thrown, docs, IF n <= out.lookups THEN n ELSE out.lookups, 0)
     ELSE out

\* edit with the n-th awaited call rejecting: findDocByIdentity, the lookups of
\* the editor and of the new author (all before the try block), then
\* findByIdAndUpdate (inside it)
EditFaultOutcome(identity, data, editorId, n) ==
  LET out == EditOutcome(identity, data, editorId)
  IN IF n = 1 THEN Outcome(Thrown, docs, 0, 0)
     ELSE IF n <= 1 + out.lookups THEN Outcome(Thrown, docs, n - 1, 0)
     ELSE IF n = 2 + out.lookups /\ out.res.type = "SUCCESS"
     THEN Outcome(handleModelErrors("fault"), docs, out.lookups, 0)
     ELSE out

\* the store after the first w writes of deleteComment: deleteOne, then the
\* children one by one in the order they were read
PartialCascade(coll, commentId, w) ==
  LET children == Children(coll, commentId)
      done == {k \in children : Cardinality({j \in children : j < k}) < w - 1}
  IN IF w = 0 THEN coll
     ELSE [k \in DOMAIN coll \ {commentId} |->
             IF k \in done THEN [coll[k] EXCEPT !.state = PARENT_DELETED] ELSE coll[k]]

\* deleteComment with the n-th awaited call rejecting: User.findById and
\* findById().populate() (before the try block), then deleteOne and the
\* updates of the children (inside it)
DeleteCommentFaultOutcome(commentId, editorId, n) ==
  LET out == DeleteCommentOutcome(commentId, editorId)
      user == UserFindById(editorId)
  IN IF ~CommentsEnabled THEN out
     ELSE IF n = 1 THEN Outcome(Thrown, comments, 1, 0)
     ELSE IF n = 2 /\ user.exists THEN Outcome(Thrown, comments, 1, 0)
     ELSE IF n >= 3 /\ out.res.type = "SUCCESS" /\ n <= 2 + out.writes
     THEN Outcome(handleModelErrors("fault"), PartialCascade(comments, commentId, n - 3),
                  1, n - 3)
     ELSE out

(***************************************************************************)
(* State machine of the calls with a faulting collaborator                 *)
(***************************************************************************)
\* the kinds: all defaults, and reading gated at seller level
FaultInit ==
  /\ cfg \in {[perm |-> Normalize(raw),
               comments |-> [enabled |-> TRUE, needToVerify |-> FALSE,
                             canVerify |-> [role |-> SELLER, public |-> TRUE],
                             canMange |-> SELLER]] :
            raw \in {RawDefault, [RawDefault EXCEPT !.read = SELLER]}}
  /\ docs = <<>>
  /\ nextId = 1
  /\ docs0 = <<>>
  /\ comments = <<>>
  /\ nextCid = 1
  /\ comments0 = <<>>
  /\ last = NoCall
  /\ pending = NoPending

\* the calls that fill the stores meet no fault
FaultCreate ==
  /\ nextId <= MaxDocs
  /\ DocStep("create", 0, "alice", EmptyPayload, CreateOutcome(EmptyPayload, "alice"))
  /\ nextId' = IF CreateOutcome(EmptyPayload, "alice").res.type = "SUCCESS"
               THEN nextId + 1 ELSE nextId

FaultNewComment ==
  \E data \in [parent : {NoParent, 1}, state : {Unset}, document : {1}] :
    /\ nextCid <= MaxComments
    /\ data.parent < nextCid
    /\ CommentStep("newComment", 0, "alice", data, NewCommentOutcome(data, "alice"))
    /\ nextCid' = IF NewCommentOutcome(data, "alice").res.type = "SUCCESS"
                  THEN nextCid + 1 ELSE nextCid

FaultGetOne ==
  \E identity \in {1, 2}, userId \in {"alice", NoId}, n \in 1..MaxFaultAt :
    /\ DocStep("getOne", identity, userId, EmptyPayload,
               GetOneFaultOutcome(identity, userId, n))
    /\ UNCHANGED nextId

FaultEdit ==
  \E identity \in {1, 2}, data \in [authorId : {Unset, Ghost}, state : {Unset}],
     n \in 1..MaxFaultAt :
    /\ DocStep("edit", identity, "alice", data, EditFaultOutcome(identity, data, "alice", n))
    /\ UNCHANGED nextId

FaultDeleteComment ==
  \E commentId \in CommentIds, n \in 1..MaxFaultAt :
    /\ CommentStep("deleteComment", commentId, "alice", [parent |-> NoParent, state |-> Unset],
                   DeleteCommentFaultOutcome(commentId, "alice", n))
    /\ UNCHANGED nextCid

FaultSpec ==
  FaultInit /\ [][FaultCreate \/ FaultNewComment \/ FaultGetOne \/ FaultEdit
                    \/ FaultDeleteComment]_vars

(***************************************************************************)
(* Properties of the exit paths, stated for FaultSpec                      *)
(***************************************************************************)
\* C12: every call ends in a success result, a typed error result or the
\* feature-disabled signal; a fault of the store or of the user directory
\* never leaves the handler un-translated
C12_NoFaultEscapes ==
  last.op # "none" => last.res.type \in {"SUCCESS", "ERROR", "DISABLED"}

(***************************************************************************)
(* Comment tree controller: the read operations                            *)
(***************************************************************************)
\* an identifier names a record of one collection: the identifiers of the
\* document collection and of the comment collection are never equal
DocRef(i) == [of |-> "doc", n |-> i]
CommentRef(i) == [of |-> "comment", n |-> i]

RECURSIVE SortAsc(_)
\* the store's natural order: the order of insertion
SortAsc(S) ==
  IF S = {} THEN <<>>
  ELSE LET m == CHOOSE x \in S : \A y \in S : x <= y
       IN <<m>> \o SortAsc(S \ {m})

\* getComment(id): the record is looked up in this.Model, the collection of
\* the documents.  populate("children") names a path the document schema does
\* not have: with strictPopulate the query of a found record rejects (there is
\* no try block), without it the path is skipped
GetCommentOutcome(id, strictPopulate) ==
  IF ~CommentsEnabled THEN Outcome(DisabledSignal, comments, 0, 0)
  ELSE IF ~(id.of = "doc" /\ id.n \in DOMAIN docs)
  THEN Outcome(singleError("comment", COMMENT_NOT_FOUND, "NOT_FOUND"), comments, 0, 0)
  ELSE IF strictPopulate THEN Outcome(Thrown, comments, 0, 0)
  ELSE Outcome(success([kind |-> "doc", id |-> id.n, children |-> {}], "comment found", "SUCCESS"),
               comments, 0, 0)

\* getDocumentComments(identity, page, limit): the identity is resolved in
\* this.CommentModel.  The filter {article, state: ACCEPTED} names a path the
\* comment schema does not have (its path is `document`): with strictQuery the
\* path is dropped from the filter, without it no stored comment matches it
GetDocumentCommentsOutcome(identity, page, limit, strictQuery) ==
  IF ~CommentsEnabled THEN Outcome(DisabledSignal, comments, 0, 0)
  ELSE
    LET p == ConvertToNaturalNumber(page)
        l == ConvertToNaturalNumber(limit)
        skip == Skip(p, l)
        document == identity.of = "comment" /\ identity.n \in DOMAIN comments
        match == IF strictQuery
                 THEN {k \in DOMAIN comments : comments[k].state = ACCEPTED}
                 ELSE {}
        found == SkipLimit(SortAsc(match), skip, l)
        pageData == getPageData(p, l, Cardinality(match))
    IN IF ~document
       THEN Outcome(singleError("article", "article not found", "NOT_FOUND"), comments, 0, 0)
       ELSE Outcome(success([kind |-> "list", items |-> found, skip |-> skip,
                             pageData |-> pageData,
                             children |-> [k \in {found[i] : i \in 1..Len(found)} |->
                                             Children(comments, k)]],
                            "", "SUCCESS"),
                    comments, 0, 0)

\* getComments(page, limit, {filter, sort})
GetCommentsOutcome(page, limit, filter) ==
  IF ~CommentsEnabled THEN Outcome(DisabledSignal, comments, 0, 0)
  ELSE
    LET p == ConvertToNaturalNumber(page)
        l == ConvertToNaturalNumber(limit)
        skip == Skip(p, l)
        match == {k \in DOMAIN comments :
                    filter.state = Unset \/ comments[k].state = filter.state}
        found == SkipLimit(SortDesc(match), skip, l)
        pageData == getPageData(p, l, Cardinality(match))
    IN Outcome(success([kind |-> "list", items |-> found, skip |-> skip,
                        pageData |-> pageData],
                       "", "SUCCESS"),
               comments, 0, 0)

\* the queries a call sends to the comment and document collections before
\* its writes: none when comments are disabled
StoreReads(op, identity, actor) ==
  IF ~CommentsEnabled THEN 0
  ELSE CASE op = "getComment" -> 1
         [] op = "getDocumentComments" ->
              IF identity.of = "comment" /\ identity.n \in DOMAIN comments THEN 3 ELSE 1
         [] op = "getComments" -> 2
         [] op = "deleteComment" -> IF UserFindById(actor).exists THEN 1 ELSE 0
         [] OTHER -> 0

(***************************************************************************)
(* State machine of the comment threads of stored documents: all six       *)
(* comment operations, on comments of two documents                        *)
(***************************************************************************)
MaxThread == 2

ThreadIds == 1..MaxThread
\* the identifiers of the two stored documents, of a document that is not
\* stored, and of the comments
ThreadRefs == {DocRef(i) : i \in 1..3} \cup {CommentRef(i) : i \in ThreadIds}

ThreadInit ==
  /\ cfg \in {[perm |-> Normalize(RawDefault), comments |-> cc] :
               cc \in {[enabled |-> TRUE, needToVerify |-> FALSE,
                        canVerify |-> [role |-> ADMIN, public |-> TRUE],
                        canMange |-> ADMIN],
                       CommentsOff}}
  /\ docs = [i \in {1, 2} |-> ModelCreate(EmptyPayload)]
  /\ nextId = 3
  /\ docs0 = docs
  /\ comments = <<>>
  /\ nextCid = 1
  /\ comments0 = <<>>
  /\ last = [NoCall EXCEPT !.identity = DocRef(0)]
  /\ pending = NoPending

ThreadStep(op, identity, actor, data, out) ==
  /\ comments' = out.store
  /\ comments0' = comments
  /\ last' = [op |-> op, identity |-> identity, actor |-> actor, data |-> data,
              res |-> out.res, lookups |-> out.lookups, writes |-> out.writes,
              reads |-> StoreReads(op, identity, actor)]
  /\ UNCHANGED <<cfg, docs, nextId, docs0, pending>>

ThreadGetComment ==
  \E id \in ThreadRefs, strictPopulate \in BOOLEAN :
    /\ ThreadStep("getComment", id, NoId, EmptyPayload, GetCommentOutcome(id, strictPopulate))
    /\ UNCHANGED nextCid

ThreadGetDocumentComments ==
  \E identity \in ThreadRefs, limit \in {1, 2}, strictQuery \in BOOLEAN :
    /\ ThreadStep("getDocumentComments", identity, NoId, [page |-> 1, limit |-> limit],
                  GetDocumentCommentsOutcome(identity, 1, limit, strictQuery))
    /\ UNCHANGED nextCid

ThreadGetComments ==
  \E limit \in {1, 2}, filter \in [state : {Unset, ACCEPTED}] :
    /\ ThreadStep("getComments", DocRef(0), NoId, [page |-> 1, limit |-> limit, filter |-> filter],
                  GetCommentsOutcome(1, limit, filter))
    /\ UNCHANGED nextCid

ThreadNewComment ==
  \E data \in [parent : {NoParent, 1}, state : {Unset}, document : {1, 2}] :
    /\ nextCid <= MaxThread
    /\ data.parent < nextCid
    /\ ThreadStep("newComment", DocRef(0), "alice", data, NewCommentOutcome(data, "alice"))
    /\ nextCid' = IF NewCommentOutcome(data, "alice").res.type = "SUCCESS"
                  THEN nextCid + 1 ELSE nextCid

ThreadEditComment ==
  \E commentId \in ThreadIds :
    /\ ThreadStep("editComment", CommentRef(commentId), "alice",
                  [parent |-> NoParent, state |-> Unset],
                  EditCommentOutcome(commentId, [parent |-> NoParent, state |-> Unset], "alice"))
    /\ UNCHANGED nextCid

ThreadDeleteComment ==
  \E commentId \in ThreadIds :
    /\ ThreadStep("deleteComment", CommentRef(commentId), "alice",
                  [parent |-> NoParent, state |-> Unset],
                  DeleteCommentOutcome(commentId, "alice"))
    /\ UNCHANGED nextCid

ThreadSpec ==
  ThreadInit /\ [][\/ ThreadGetComment \/ ThreadGetDocumentComments \/ ThreadGetComments
                    \/ ThreadNewComment \/ ThreadEditComment \/ ThreadDeleteComment]_vars

(***************************************************************************)
(* Properties of the comment operations, stated for ThreadSpec             *)
(***************************************************************************)
CommentOps ==
  {"getComment", "getDocumentComments", "getComments",
   "newComment", "editComment", "deleteComment"}

\* C13: with comments disabled every comment operation returns the disabled
\* signal at once: no user lookup, no read of a store, no write, and the
\* stores are as they were
C13_DisabledBeforeAnythingElse ==
  (last.op \in CommentOps /\ ~CommentsEnabled)
    => /\ last.res = DisabledSignal
       /\ last.lookups = 0
       /\ last.reads = 0
       /\ last.writes = 0
       /\ comments = comments0
       /\ docs = docs0

\* deleteComment of a comment has been called by an existing user with
\* comments disabled
C13_Witness ==
  /\ ~CommentsEnabled
  /\ last.op = "deleteComment"
  /\ last.res = DisabledSignal
  /\ last.identity = CommentRef(1)
  /\ LastActor.exists

NamesStoredDocument == last.identity.of = "doc" /\ last.identity.n \in DOMAIN docs
NamesStoredComment == last.identity.of = "comment" /\ last.identity.n \in DOMAIN comments
AcceptedOfDocument ==
  {k \in DOMAIN comments :
     comments[k].document = last.identity.n /\ comments[k].state = ACCEPTED}
ListedComments == {last.res.data.items[i] : i \in 1..Len(last.res.data.items)}

\* C14: getDocumentComments resolves its identity in the document collection:
\* it returns 404 when no stored document has it, and otherwise a page of the
\* ACCEPTED comments of that document and nothing else, with their number as
\* the total
C14_DocumentCommentsOfDocument ==
  (last.op = "getDocumentComments" /\ CommentsEnabled)
    => IF NamesStoredDocument
       THEN /\ Succeeded
            /\ ListedComments \subseteq AcceptedOfDocument
            /\ last.res.data.pageData.totalItems = Cardinality(AcceptedOfDocument)
            /\ Len(last.res.data.items) <= last.data.limit
       ELSE Failed /\ last.res.status = "NOT_FOUND"

\* C15: getComment(id) returns success with the comment and its direct
\* children when the comment store has a comment with that identifier, and
\* the 404 error exactly when it has none
C15_GetCommentFromCommentStore ==
  (last.op = "getComment" /\ CommentsEnabled)
    => IF NamesStoredComment
       THEN /\ Succeeded
            /\ last.res.data.kind = "comment"
            /\ last.res.data.id = last.identity.n
            /\ last.res.data.children = Children(comments, last.identity.n)
       ELSE Failed /\ last.res.status = "NOT_FOUND"

(***************************************************************************)
(* State machine of the listings of drafts: records in both lifecycle      *)
(* states, every kind of getDrafts policy, every kind of caller            *)
(***************************************************************************)
\* the kinds: all defaults (getDrafts at the write default, public); drafts at
\* guest level, public and not public; a gated listing with drafts for admins
ListInit ==
  /\ cfg \in {[perm |-> Normalize(raw), comments |-> CommentsOff] :
               raw \in {RawDefault,
                        [RawDefault EXCEPT !.getDrafts = [role |-> GEST, public |-> TRUE]],
                        [RawDefault EXCEPT !.getDrafts = [role |-> GEST, public |-> FALSE]],
                        [RawDefault EXCEPT !.read = SELLER,
                                           !.getDrafts = [role |-> ADMIN, public |-> TRUE]]}}
  /\ docs = <<>>
  /\ nextId = 1
  /\ docs0 = <<>>
  /\ comments = <<>>
  /\ nextCid = 1
  /\ comments0 = <<>>
  /\ last = NoCall
  /\ pending = NoPending

\* the payload leaves the state to the schema default or asks for a draft
ListCreate ==
  \E data \in [authorId : {Unset}, state : {Unset, DRAFT}] :
    /\ nextId <= MaxDocs
    /\ DocStep("create", 0, "alice", data, CreateOutcome(data, "alice"))
    /\ nextId' = IF CreateOutcome(data, "alice").res.type = "SUCCESS"
                 THEN nextId + 1 ELSE nextId

ListGetAll ==
  \E page \in {1, 2}, limit \in {1, 2}, userId \in ActorArgs :
    /\ DocStep("getAll", 0, userId, [authorId |-> Unset, state |-> Unset, page |-> page, limit |-> limit],
               GetAllOutcome(page, limit, userId))
    /\ UNCHANGED nextId

ListSpec == ListInit /\ [][ListCreate \/ ListGetAll]_vars

(***************************************************************************)
(* Properties of the listings, stated for ListSpec                         *)
(***************************************************************************)
Listed == last.op = "getAll" /\ Succeeded
ListedIds == {last.res.data.items[i] : i \in 1..Len(last.res.data.items)}
Published == {k \in DOMAIN docs : docs[k].state = PUBLISHED}

GuestPublicDrafts == cfg.perm.getDrafts.role = GEST /\ cfg.perm.getDrafts.public
ActorSatisfiesDrafts ==
  LastActor.exists /\ permissionsCheck(cfg.perm.getDrafts.role, LastActor.role)

\* C11: unless the getDrafts policy is guest-public or the resolved actor's
\* role satisfies the getDrafts role, every record getAll returns is PUBLISHED
\* and its total counts the PUBLISHED records only (so a DRAFT record is
\* returned only in those two cases)
C11_DraftsOnlyForDraftReaders ==
  (Listed /\ ~GuestPublicDrafts /\ ~ActorSatisfiesDrafts)
    => /\ \A k \in ListedIds : docs[k].state = PUBLISHED
       /\ last.res.data.pageData.totalItems = Cardinality(Published)

(***************************************************************************)
(* State machine of the pages: listings of documents and of comments with  *)
(* page and limit arguments below, within and beyond the stored records    *)
(***************************************************************************)
MaxPageArg == 3

PageInit ==
  /\ cfg = [perm |-> Normalize(RawDefault),
            comments |-> [enabled |-> TRUE, needToVerify |-> FALSE,
                          canVerify |-> [role |-> ADMIN, public |-> TRUE],
                          canMange |-> ADMIN]]
  /\ docs = <<>>
  /\ nextId = 1
  /\ docs0 = <<>>
  /\ comments = <<>>
  /\ nextCid = 1
  /\ comments0 = <<>>
  /\ last = NoCall
  /\ pending = NoPending

PageCreate ==
  /\ nextId <= MaxDocs
  /\ DocStep("create", 0, "alice", EmptyPayload, CreateOutcome(EmptyPayload, "alice"))
  /\ nextId' = IF CreateOutcome(EmptyPayload, "alice").res.type = "SUCCESS"
               THEN nextId + 1 ELSE nextId

\* a comment on the first document, outside any thread
PageNewComment ==
  \E data \in [parent : {NoParent}, state : {Unset}, document : {1}] :
    /\ nextCid <= MaxComments
    /\ CommentStep("newComment", 0, "alice", data, NewCommentOutcome(data, "alice"))
    /\ nextCid' = IF NewCommentOutcome(data, "alice").res.type = "SUCCESS"
                  THEN nextCid + 1 ELSE nextCid

PageGetAll ==
  \E page \in 0..MaxPageArg, limit \in 0..MaxPageArg :
    /\ DocStep("getAll", 0, NoId,
               [authorId |-> Unset, state |-> Unset, page |-> page, limit |-> limit],
               GetAllOutcome(page, limit, NoId))
    /\ UNCHANGED nextId

PageGetComments ==
  \E page \in 0..MaxPageArg, limit \in 0..MaxPageArg :
    /\ CommentStep("getComments", 0, NoId,
                   [authorId |-> Unset, state |-> Unset, page |-> page, limit |-> limit],
                   GetCommentsOutcome(page, limit, [state |-> Unset]))
    /\ UNCHANGED nextCid

PageSpec ==
  PageInit /\ [][PageCreate \/ PageNewComment \/ PageGetAll \/ PageGetComments]_vars

(***************************************************************************)
(* Properties of the pages, stated for PageSpec                            *)
(***************************************************************************)
Paged == last.op \in {"getAll", "getComments"} /\ Succeeded
Coerced(n) == IF n >= 1 THEN n ELSE 1
Min(a, b) == IF a <= b THEN a ELSE b

\* C18: with page and limit coerced up to 1 when they are not positive, a
\* listing skips (page-1)*limit records and returns the records after them,
\* at most limit; totalPages is the least number of pages of limit records
\* that hold the total, hasNext is page < totalPages and hasPrev is page > 1;
\* with a total of 0, hasNext is false
C18_PageArithmetic ==
  Paged =>
    LET page == Coerced(last.data.page)
        limit == Coerced(last.data.limit)
        d == last.res.data
        pd == d.pageData
        rest == IF pd.totalItems > d.skip THEN pd.totalItems - d.skip ELSE 0
    IN /\ pd.page = page /\ pd.limit = limit
       /\ d.skip = (page - 1) * limit
       /\ Len(d.items) = Min(limit, rest)
       /\ pd.totalPages * limit >= pd.totalItems
       /\ (pd.totalPages - 1) * limit < pd.totalItems
       /\ pd.hasNext = (page < pd.totalPages)
       /\ pd.hasPrev = (page > 1)
       /\ pd.totalItems = 0 => ~pd.hasNext
       /\ last.op = "getComments" => pd.totalItems = Cardinality(DOMAIN comments)
       /\ last.op = "getAll" => pd.totalItems = Cardinality(DOMAIN docs)

\* three comments listed with page 0 and limit 2: the first of two pages
C18_Witness ==
  /\ last.op = "getComments"
  /\ Succeeded
  /\ last.data.page = 0
  /\ last.data.limit = 2
  /\ last.res.data.pageData.totalItems = 3
  /\ last.res.data.pageData.hasNext
  /\ Len(last.res.data.items) = 2

(***************************************************************************)
(* State machine of the verification of comments: needToVerify is set, a   *)
(* seller (below canVerify) and an admin (a verifier) edit with every      *)
(* requested state                                                         *)
(***************************************************************************)
VerifyInit ==
  /\ cfg = [perm |-> Normalize(RawDefault),
            comments |-> [enabled |-> TRUE, needToVerify |-> TRUE,
                          canVerify |-> [role |-> ADMIN, public |-> TRUE],
                          canMange |-> ADMIN]]
  /\ docs = <<>>
  /\ nextId = 1
  /\ docs0 = <<>>
  /\ comments = <<>>
  /\ nextCid = 1
  /\ comments0 = <<>>
  /\ last = NoCall
  /\ pending = NoPending

VerifyNewComment ==
  \E data \in [parent : {NoParent, 1}, state : {Unset}, document : {1}] :
    /\ nextCid <= MaxThread
    /\ data.parent < nextCid
    /\ CommentStep("newComment", 0, "alice", data, NewCommentOutcome(data, "alice"))
    /\ nextCid' = IF NewCommentOutcome(data, "alice").res.type = "SUCCESS"
                  THEN nextCid + 1 ELSE nextCid

VerifyEditComment ==
  \E commentId \in ThreadIds,
     data \in [parent : {NoParent}, state : {Unset, ACCEPTED, REJECTED}],
     editorId \in {"alice", "carol"} :
    /\ CommentStep("editComment", commentId, editorId, data,
                   EditCommentOutcome(commentId, data, editorId))
    /\ UNCHANGED nextCid

VerifyDeleteComment ==
  \E commentId \in ThreadIds :
    /\ CommentStep("deleteComment", commentId, "alice", [parent |-> NoParent, state |-> Unset],
                   DeleteCommentOutcome(commentId, "alice"))
    /\ UNCHANGED nextCid

VerifySpec ==
  VerifyInit /\ [][VerifyNewComment \/ VerifyEditComment \/ VerifyDeleteComment]_vars

(***************************************************************************)
(* Properties of the verification, stated for VerifySpec                   *)
(***************************************************************************)
Decided == {ACCEPTED, REJECTED}
LastIsVerifier == permissionsCheck(cfg.comments.canVerify.role, LastActor.role)
EditedBy(k, verifier) ==
  /\ last.op = "editComment"
  /\ Succeeded
  /\ last.identity = k
  /\ LastIsVerifier = verifier

\* C19: with needToVerify set, after every call a comment that is ACCEPTED or
\* REJECTED either was put in that state by this call, an edit of it by a
\* verifier, or was in that state before the call and the call was not an
\* edit of it by a non-verifier: the last edit that set the state of a decided
\* comment was a verifier's, and calls of non-verifiers alone (newComment,
\* editComment, deleteComment) never make a comment ACCEPTED or REJECTED
C19_DecidedOnlyByVerifier ==
  cfg.comments.needToVerify =>
    \A k \in DOMAIN comments :
      comments[k].state \in Decided
        => /\ ~EditedBy(k, FALSE)
           /\ \/ EditedBy(k, TRUE) /\ last.data.state = comments[k].state
              \/ k \in DOMAIN comments0 /\ comments0[k].state = comments[k].state

\* a non-verifier asked for ACCEPTED on a comment a verifier had rejected, and
\* a comment a verifier had accepted is stored beside it
C19_Witness ==
  /\ last.op = "editComment"
  /\ Succeeded
  /\ ~LastIsVerifier
  /\ last.data.state = ACCEPTED
  /\ comments0[last.identity].state = REJECTED
  /\ comments[last.identity].state = WAITING
  /\ \E k \in DOMAIN comments : comments[k].state = ACCEPTED

(***************************************************************************)
(* State machine of the constructor's normalization: an options object     *)
(* with any of read, write and the advance fields set is handed to the     *)
(* constructor, which writes the normalized permissions back into it; the  *)
(* same object can be handed to a constructor again                        *)
(***************************************************************************)
RawPermissions ==
  LET roles == {Unset, GEST, ADMIN}
      policies == {UnsetPolicy, [role |-> GEST, public |-> FALSE],
                   [role |-> ADMIN, public |-> TRUE], [role |-> ADMIN, public |-> FALSE]}
  IN [read : roles, write : roles, getAll : roles, getOne : roles,
      create : roles, edit : policies, delete : policies, getDrafts : policies]

\* the options object before construction; last.data keeps what was given
NormInit ==
  /\ \E raw \in RawPermissions :
       /\ cfg = [perm |-> raw, comments |-> CommentsOff]
       /\ last = [NoCall EXCEPT !.op = "options", !.data = raw]
       /\ pending = NoPending
  /\ docs = <<>>
  /\ nextId = 1
  /\ docs0 = <<>>
  /\ comments = <<>>
  /\ nextCid = 1
  /\ comments0 = <<>>

Construct ==
  /\ last.op = "options"
  /\ cfg' = [cfg EXCEPT !.perm = Normalize(cfg.perm)]
  /\ last' = [last EXCEPT !.op = "construct"]
  /\ UNCHANGED <<docs, nextId, docs0, comments, nextCid, comments0, pending>>

Reconstruct ==
  /\ last.op = "construct"
  /\ cfg' = [cfg EXCEPT !.perm = Normalize(cfg.perm)]
  /\ last' = [last EXCEPT !.op = "reconstruct"]
  /\ UNCHANGED <<docs, nextId, docs0, comments, nextCid, comments0, pending>>

NormSpec == NormInit /\ [][Construct \/ Reconstruct]_vars

(***************************************************************************)
(* Properties of the normalization, stated for NormSpec                    *)
(***************************************************************************)
Constructed == last.op \in {"construct", "reconstruct"}

Advance(p) ==
  [getAll |-> p.getAll, getOne |-> p.getOne, create |-> p.create,
   edit |-> p.edit, delete |-> p.delete, getDrafts |-> p.getDrafts]

AdvancePopulated(p) ==
  /\ {p.getAll, p.getOne, p.create} \subseteq ERole
  /\ {p.edit.role, p.delete.role, p.getDrafts.role} \subseteq ERole
  /\ {p.edit.public, p.delete.public, p.getDrafts.public} \subseteq BOOLEAN

\* C16: whatever subset of read, write and the advance fields was given,
\* after normalization all six advance fields are populated, and normalizing
\* the normalized configuration again gives the same advance permissions
C16_NormalizeTotalAndIdempotent ==
  /\ Constructed => AdvancePopulated(cfg.perm)
  /\ last.op = "reconstruct" => Advance(cfg.perm) = Advance(Normalize(last.data))

\* a configuration with some fields given and some left out has been
\* normalized twice
C16_Witness ==
  /\ last.op = "reconstruct"
  /\ last.data.read = ADMIN
  /\ last.data.write = Unset
  /\ last.data.getAll = GEST
  /\ last.data.getOne = Unset
  /\ last.data.edit = UnsetPolicy
  /\ last.data.delete.role = GEST
  /\ cfg.perm.getOne = ADMIN

\* v is taken from the explicit field, else from the shorthand, else it is
\* the default
Precedence(v, explicit, shorthand, default) ==
  /\ explicit # Unset => v = explicit
  /\ (explicit = Unset /\ shorthand # Unset) => v = shorthand
  /\ (explicit = Unset /\ shorthand = Unset) => v = default

\* C17: each advance field is the explicit advance value if one was given,
\* else the shorthand (read for getAll and getOne, write for create, edit,
\* delete and getDrafts), else the default (guest for getAll and getOne,
\* seller for the write actions); an explicit owner-aware policy is kept whole
C17_NormalizePrecedence ==
  last.op = "construct" =>
    LET raw == last.data
        p == cfg.perm
    IN /\ Precedence(p.getAll, raw.getAll, raw.read, GEST)
       /\ Precedence(p.getOne, raw.getOne, raw.read, GEST)
       /\ Precedence(p.create, raw.create, raw.write, SELLER)
       /\ Precedence(p.edit.role, raw.edit.role, raw.write, SELLER)
       /\ Precedence(p.delete.role, raw.delete.role, raw.write, SELLER)
       /\ Precedence(p.getDrafts.role, raw.getDrafts.role, raw.write, SELLER)
       /\ raw.edit.role # Unset => p.edit = raw.edit
       /\ raw.delete.role # Unset => p.delete = raw.delete
       /\ raw.getDrafts.role # Unset => p.getDrafts = raw.getDrafts

\* a configuration in which an explicit field meets a different shorthand, a
\* shorthand fills a field left out, and a field falls to its default
C17_Witness ==
  /\ last.op = "construct"
  /\ last.data.read = ADMIN /\ last.data.getAll = GEST /\ cfg.perm.getAll = GEST
  /\ last.data.getOne = Unset /\ cfg.perm.getOne = ADMIN
  /\ last.data.write = Unset /\ last.data.create = Unset /\ cfg.perm.create = SELLER
  /\ last.data.edit.role = ADMIN /\ ~last.data.edit.public

(***************************************************************************)
(* deleteComment taken one awaited storage call at a time.  Between two    *)
(* of its awaits other calls run: newComment and editComment make one      *)
(* storage write each, so they are taken whole.  One deleteComment is in   *)
(* flight at a time.                                                       *)
(***************************************************************************)
\* variant: removing the comment also updates its children, in one storage step
DeleteOneComment_Cascading(coll, commentId) == CascadeDelete(coll, commentId)

\* await comment.deleteOne(): the comment this call read is removed
DeleteOneComment(coll, commentId) == Remove(coll, commentId)

\* the enabled test, User.findById and findById(commentId).populate("children"):
\* the call returns an error, or goes on with the children it has read
DeleteCommentRead ==
  \E commentId \in ThreadIds :
    LET out == DeleteCommentOutcome(commentId, "alice")
    IN
    /\ pending = NoPending
    /\ IF out.res.type = "SUCCESS"
       THEN /\ pending' = [op |-> "deleteComment", pc |-> "deleteOne", id |-> commentId,
                           actor |-> "alice", data |-> EmptyPayload,
                           children |-> SortAsc(Children(comments, commentId)),
                           lookups |-> out.lookups, writes |-> 0]
            /\ UNCHANGED <<cfg, docs, nextId, docs0, comments, nextCid, comments0, last>>
       ELSE /\ CommentStep("deleteComment", commentId, "alice",
                           [parent |-> NoParent, state |-> Unset],
                           [out EXCEPT !.store = comments])
            /\ UNCHANGED nextCid

DeleteCommentDeleteOne ==
  /\ pending.op = "deleteComment"
  /\ pending.pc = "deleteOne"
  /\ comments' = DeleteOneComment(comments, pending.id)
  /\ pending' = [pending EXCEPT !.pc = "children", !.writes = 1]
  /\ UNCHANGED <<cfg, docs, nextId, docs0, nextCid, comments0, last>>

\* one turn of the loop: findByIdAndUpdate(child._id, {state: PARENT_DELETED});
\* a child that is no longer stored is left out by the storage
DeleteCommentUpdateChild ==
  /\ pending.op = "deleteComment"
  /\ pending.pc = "children"
  /\ pending.writes <= Len(pending.children)
  /\ LET child == pending.children[pending.writes]
     IN comments' = IF child \in DOMAIN comments
                    THEN [comments EXCEPT ![child].state = PARENT_DELETED]
                    ELSE comments
  /\ pending' = [pending EXCEPT !.writes = @ + 1]
  /\ UNCHANGED <<cfg, docs, nextId, docs0, nextCid, comments0, last>>

\* after the loop: return this.result.success(comment, SUCCESS_DELETE)
DeleteCommentReturn ==
  /\ pending.op = "deleteComment"
  /\ pending.pc = "children"
  /\ pending.writes > Len(pending.children)
  /\ last' = Call("deleteComment", pending.id, pending.actor,
                  [parent |-> NoParent, state |-> Unset],
                  Outcome(success([kind |-> "comment", id |-> pending.id],
                                  C_SUCCESS_DELETE, "SUCCESS"),
                          comments, pending.lookups, pending.writes))
  /\ pending' = NoPending
  /\ UNCHANGED <<cfg, docs, nextId, docs0, comments, nextCid, comments0>>

\* the process running the call ends between two awaits: the writes made so
\* far stay, the remaining ones are never made
DeleteCommentStop ==
  /\ pending.op = "deleteComment"
  /\ pending.pc \in {"deleteOne", "children"}
  /\ pending' = [pending EXCEPT !.pc = "stopped"]
  /\ UNCHANGED <<cfg, docs, nextId, docs0, comments, nextCid, comments0, last>>

CascadeSpec ==
  VerifyInit /\ [][\/ VerifyNewComment
                   \/ VerifyEditComment
                   \/ DeleteCommentRead
                   \/ DeleteCommentDeleteOne
                   \/ DeleteCommentUpdateChild
                   \/ DeleteCommentReturn
                   \/ DeleteCommentStop]_vars

\* the children the stopped call had read and not yet updated
StaleChildren ==
  {pending.children[i] : i \in pending.writes..Len(pending.children)}

StoppedAfterRemoval ==
  /\ pending.op = "deleteComment"
  /\ pending.pc = "stopped"
  /\ pending.writes >= 1

\* C21: deleteComment is not atomic: once a call has stopped after removing
\* the parent, in that state and in every later one the parent is absent and
\* each child the call had read and not yet updated is stored in a state other
\* than PARENT_DELETED
C21_StoppedCascadeLeavesStaleChildren ==
  StoppedAfterRemoval =>
    /\ pending.id \notin DOMAIN comments
    /\ \A c \in StaleChildren :
         c \in DOMAIN comments /\ comments[c].state # PARENT_DELETED

\* a call stopped right after removing a parent of one child, and another
\* call has edited that child since: the child is still not PARENT_DELETED
C21_Witness ==
  /\ StoppedAfterRemoval
  /\ pending.writes = 1
  /\ StaleChildren # {}
  /\ pending.id \notin DOMAIN comments
  /\ last.op = "editComment"
  /\ last.identity \in StaleChildren
  /\ last.res.type = "SUCCESS"
  /\ comments[last.identity].state = WAITING

\* no call is between two of its storage calls; a call that has stopped stays
\* in flight, so here every removal was made by a deleteComment that returned
Quiescent == pending = NoPending

\* the stored comments whose parent reference names a removed comment
Orphans ==
  {k \in DOMAIN comments :
     comments[k].parent # NoParent /\ comments[k].parent \notin DOMAIN comments}

\* C22: whenever no comment operation is in progress, every stored comment
\* whose parent was removed by a completed deleteComment is in state
\* PARENT_DELETED
C22_OrphansAreMarked ==
  Quiescent => \A k \in Orphans : comments[k].state = PARENT_DELETED

(***************************************************************************)
(* edit taken in two parts: the resolution of the record and the checks,   *)
(* then the update.  Between the two other calls run; create and delete    *)
(* make one storage write each, so they are taken whole.  One edit is in   *)
(* flight at a time.                                                       *)
(***************************************************************************)
\* const newDoc = await this.Model.findByIdAndUpdate(document.id, data), then
\* return this.result.success(newDoc, ...): newDoc is null when no record has
\* the identifier any more, and it is not tested
EditUpdateOutcome(id, data, lookups) ==
  IF id \in DOMAIN docs
  THEN Outcome(success([kind |-> "doc", id |-> id], MSG_SUCCESS_EDIT, "SUCCESS_CREATE"),
               [docs EXCEPT ![id] = ModelUpdate(@, data)], lookups, 1)
  ELSE Outcome(success(NoData, MSG_SUCCESS_EDIT, "SUCCESS_CREATE"), docs, lookups, 1)

\* a kind that sellers edit and delete whoever the author is
RaceInit ==
  /\ cfg = [perm |-> Normalize([RawDefault EXCEPT
                                  !.delete = [role |-> SELLER, public |-> TRUE]]),
            comments |-> CommentsOff]
  /\ docs = <<>>
  /\ nextId = 1
  /\ docs0 = <<>>
  /\ comments = <<>>
  /\ nextCid = 1
  /\ comments0 = <<>>
  /\ last = NoCall
  /\ pending = NoPending

\* findDocByIdentity, the actor's checks and the new author's check: the call
\* returns an error, or goes on to the update with the record it resolved
EditResolve ==
  \E identity \in Identities, data \in EditPayloads, editorId \in {"alice", Ghost} :
    LET out == EditOutcome(identity, data, editorId)
    IN
    /\ pending = NoPending
    /\ IF out.res.type = "SUCCESS"
       THEN /\ pending' = [op |-> "edit", pc |-> "update",
                           id |-> findDocByIdentity(identity, docs).id,
                           actor |-> editorId, data |-> data, children |-> <<>>,
                           lookups |-> out.lookups, writes |-> 0]
            /\ UNCHANGED <<cfg, docs, nextId, docs0, comments, nextCid, comments0, last>>
       ELSE /\ DocStep("edit", identity, editorId, data, [out EXCEPT !.store = docs])
            /\ UNCHANGED nextId

EditUpdate ==
  LET out == EditUpdateOutcome(pending.id, pending.data, pending.lookups)
  IN
  /\ pending.op = "edit"
  /\ pending.pc = "update"
  /\ docs' = out.store
  /\ docs0' = docs
  /\ last' = Call("edit", pending.id, pending.actor, pending.data, out)
  /\ pending' = NoPending
  /\ UNCHANGED <<cfg, nextId, comments, nextCid, comments0>>

RaceSpec ==
  RaceInit /\ [][Create \/ Delete \/ EditResolve \/ EditUpdate]_vars

\* C23: an edit returns a success result only if the record it resolved was
\* still stored when its update was applied
C23_EditSucceedsOnStoredRecordOnly ==
  (last.op = "edit" /\ last.res.type = "SUCCESS") => last.identity \in DOMAIN docs0

====
